---- MODULE Spec2Model ----
(***************************************************************************)
(* Cart reconciliation service and product catalog (catalog/service.py,    *)
(* catalog/views.py, catalog/serializers.py, catalog/models.py).           *)
(*                                                                         *)
(* The CartItem table is a set of rows.  Every ORM call of the service is  *)
(* one SQL statement and is modelled by a pure operator on the table; the  *)
(* view handlers compose these statements.  Spec runs every request to     *)
(* completion before the next one starts; SpecConc interleaves the         *)
(* statements of requests handled by parallel workers.                     *)
(*                                                                         *)
(* The Brand, Category and Product tables are sets of rows too.            *)
(* SpecCatalog creates and saves their records through the ORM (slugs),    *)
(* SpecCreate creates products through the API, and SpecList lists the     *)
(* products of a stocked catalog under query strings.                      *)
(***************************************************************************)
EXTENDS Integers, FiniteSets, Sequences, TLC

VARIABLES
    cart,           \* the CartItem table: a set of rows
    next_id,        \* the next value of the AutoField primary key
    cookie,         \* the session key each anonymous browser sends (None: none yet)
    session_count,  \* number of session keys request.session.create() has handed out
    req,            \* the request (or ORM call) completed last
    resp,           \* its response: status code, data and errors
    add_run,        \* history: the run of successful Adds to one owner+product that ends in req
    held,           \* history: per session key, the ids it added and has not removed or cleared
    workers,        \* SpecConc: the request each worker is handling, with its locals
    catalog         \* the Brand, Category and Product tables, each with its next primary key

vars == <<cart, next_id, cookie, session_count, req, resp, add_run, held, workers, catalog>>

(* ------------------------------ bounds -------------------------------- *)
NumUsers == 2
NumBrowsers == 2
NumProducts == 3
MaxSessions == 2
MaxId == 2
MaxQuantity == 3
MaxInput == 2

(* Python's None / SQL NULL in a key column, and a JSON key that is absent *)
None == 0
Absent == 0 - 9

Users == 1..NumUsers
Browsers == 1..NumBrowsers
SessionKeys == 1..MaxSessions

(* A caller is an authenticated user or an anonymous browser *)
Callers ==
    {[user |-> u, browser |-> None] : u \in Users}
        \cup {[user |-> None, browser |-> b] : b \in Browsers}

(* request.data values the handlers are driven with *)
ProductIdInputs == 1..(NumProducts + 1)
ItemIdInputs == 0..MaxId
QuantityInputs == {Absent} \cup ((0 - 1)..MaxInput)

(* ------------------------------ Product table -------------------------- *)
(* The catalog the cart operations run against: products 1..NumProducts,   *)
(* the last one out of stock.                                              *)
Product_objects == {[id |-> p, in_stock |-> (p < NumProducts)] : p \in 1..NumProducts}

(* ------------------------------ CartItem table ------------------------- *)
(* the table without the unique_user_product constraint *)
unique_user_product_missing(rows) == TRUE

unique_user_product(rows) ==
    \A r1, r2 \in rows :
        (r1.user # None /\ r1.user = r2.user /\ r1.product = r2.product) => r1 = r2

unique_session_product(rows) ==
    \A r1, r2 \in rows :
        (r1.session_id # None /\ r1.session_id = r2.session_id /\ r1.product = r2.product)
            => r1 = r2

(* PositiveIntegerField: NOT NULL and CHECK (quantity >= 0) *)
quantity_column_ok(q) == q # Absent /\ q >= 0

(* a session filter that tells anonymous rows from user rows only *)
filter_session_id_any(rows, key) == {r \in rows : r.session_id # None}

(* QuerySet.filter(user=...) and filter(session_id=...); Django turns      *)
(* filter(session_id=None) into session_id IS NULL.                        *)
filter_user(rows, user) == {r \in rows : r.user = user}

filter_session_id(rows, key) == {r \in rows : r.session_id = key}

(* Model.save() of a row that has a primary key: UPDATE ... WHERE id = pk, *)
(* and INSERT when no row was updated.  IntegrityError leaves the table.   *)
save(rows, item) ==
    LET new == {r \in rows : r.id # item.id} \cup {item}
        ok == /\ quantity_column_ok(item.quantity)
              /\ unique_user_product(new)
              /\ unique_session_product(new)
    IN  [ok |-> ok, rows |-> IF ok THEN new ELSE rows]

(* Model.delete(): DELETE ... WHERE id = pk *)
delete(rows, item) == {r \in rows : r.id # item.id}

(* ------------------------------ service.py ----------------------------- *)
(* a lookup that forgets the owner *)
get_cart_items_unscoped(rows, user, key) == rows

get_cart_items(rows, user, key) ==
    IF user # None THEN filter_user(rows, user) ELSE filter_session_id(rows, key)

(* the SELECT of get_or_create *)
get_or_create_get(rows, user, key, product) ==
    IF user # None
    THEN {r \in filter_user(rows, user) : r.product = product}
    ELSE {r \in filter_session_id(rows, key) : r.product = product}

(* the INSERT of get_or_create *)
get_or_create_create(rows, nid, user, key, product, quantity) ==
    LET item == [id |-> nid,
                 user |-> user,
                 session_id |-> IF user # None THEN None ELSE key,
                 product |-> product,
                 quantity |-> quantity]
        ins == save(rows, item)
    IN  [ok |-> ins.ok, rows |-> ins.rows, item |-> item]

(* an Add that replaces the quantity of an existing row *)
add_to_cart_replacing(rows, nid, user, key, product, quantity) ==
    LET found == get_or_create_get(rows, user, key, product)
    IN  IF found = {}
        THEN LET c == get_or_create_create(rows, nid, user, key, product, quantity)
             IN  [ok |-> c.ok, rows |-> c.rows, item |-> c.item, created |-> TRUE]
        ELSE LET old == CHOOSE r \in found : TRUE
                 item == [old EXCEPT !.quantity = quantity]
                 s == save(rows, item)
             IN  [ok |-> s.ok, rows |-> s.rows, item |-> item, created |-> FALSE]

add_to_cart(rows, nid, user, key, product, quantity) ==
    LET found == get_or_create_get(rows, user, key, product)
    IN  IF found = {}
        THEN LET c == get_or_create_create(rows, nid, user, key, product, quantity)
             IN  [ok |-> c.ok, rows |-> c.rows, item |-> c.item, created |-> TRUE]
        ELSE LET old == CHOOSE r \in found : TRUE
                 item == [old EXCEPT !.quantity = @ + quantity]
                 s == save(rows, item)
             IN  [ok |-> s.ok, rows |-> s.rows, item |-> item, created |-> FALSE]

update_cart_item(rows, user, key, item_id, quantity) ==
    LET found == {r \in get_cart_items(rows, user, key) : r.id = item_id}
    IN  IF found = {}
        THEN [ok |-> FALSE, rows |-> rows, item |-> {}]
        ELSE LET old == CHOOSE r \in found : TRUE
                 item == [old EXCEPT !.quantity = quantity]
                 s == save(rows, item)
             IN  [ok |-> s.ok, rows |-> s.rows, item |-> IF s.ok THEN {item} ELSE {}]

(* a Remove that deletes every row of the owner *)
delete_cart_item_all(rows, user, key, item_id) ==
    LET found == {r \in get_cart_items(rows, user, key) : r.id = item_id}
    IN  IF found = {}
        THEN [ok |-> FALSE, rows |-> rows]
        ELSE [ok |-> TRUE, rows |-> rows \ get_cart_items(rows, user, key)]

delete_cart_item(rows, user, key, item_id) ==
    LET found == {r \in get_cart_items(rows, user, key) : r.id = item_id}
    IN  IF found = {}
        THEN [ok |-> FALSE, rows |-> rows]
        ELSE [ok |-> TRUE, rows |-> delete(rows, CHOOSE r \in found : TRUE)]

clear_cart(rows, user, key) ==
    IF user # None
    THEN rows \ filter_user(rows, user)
    ELSE rows \ filter_session_id(rows, key)

(* ------------------------------ serializers.py ------------------------- *)
(* an off-by-one quantity check *)
validate_quantity_from_zero(value) == value >= 0

validate_quantity(value) == value >= 1

CartItemSerializer_validate(product) == product.in_stock

(* serializer.errors: the field errors (product_id must name a Product;   *)
(* quantity, optional because the model field has a default, must be at    *)
(* least 1) and, when there are none, the object-level stock check.        *)
CartItemSerializer_errors(product_id, quantity) ==
    LET field_errors ==
            (IF \E p \in Product_objects : p.id = product_id THEN {} ELSE {"product_id"})
                \cup (IF quantity = Absent \/ validate_quantity(quantity)
                      THEN {} ELSE {"quantity"})
    IN  IF field_errors # {} THEN field_errors
        ELSE IF \A p \in Product_objects :
                    p.id = product_id => CartItemSerializer_validate(p)
             THEN {} ELSE {"product"}

CartItemSerializer_is_valid(product_id, quantity) ==
    CartItemSerializer_errors(product_id, quantity) = {}

(* ------------------------------ sessions ------------------------------- *)
(* request.session.session_key of a caller's request *)
session_key(c) == IF c.browser # None THEN cookie[c.browser] ELSE None

(* a request that works under the key it arrived with, created or not *)
ensured_key_uncreated(c) == session_key(c)

(* the key the request works under after
   `if not request.session.session_key: request.session.create()` *)
ensured_key(c) ==
    IF c.user # None \/ session_key(c) # None THEN session_key(c) ELSE session_count + 1

(* the guarded session creation of get_cart_items and add_to_cart, with    *)
(* the cookie the response then sets                                       *)
EnsureSession(c) ==
    IF c.user = None /\ session_key(c) = None
    THEN /\ session_count < MaxSessions
         /\ session_count' = session_count + 1
         /\ cookie' = [cookie EXCEPT ![c.browser] = session_count + 1]
    ELSE UNCHANGED <<cookie, session_count>>

(* a request: the verb, the caller, the session key it ran under, the      *)
(* product id or cart item id it names and the quantity it carries         *)
Request(op, c, key, target, quantity) ==
    [op |-> op, user |-> c.user, browser |-> c.browser, key |-> key, target |-> target,
     quantity |-> quantity]

(* custom_response(status_code, message, data, errors) *)
custom_response(status, data, errors) == [status |-> status, data |-> data, errors |-> errors]

NoRequest == Request("none", [user |-> None, browser |-> None], None, None, Absent)

NoResponse == custom_response(0, {}, {})

NoRun == [user |-> None, key |-> None, product |-> None, base |-> 0, q1 |-> 0, q2 |-> 0]

(* the run of successful Adds after one more Add of `quantity` to the pair, *)
(* whose row held `before` (0: no row) when the request arrived             *)
NextRun(user, key, product, quantity, before) ==
    IF add_run.product = product /\ add_run.user = user /\ add_run.key = key
    THEN IF add_run.q2 = 0
         THEN [add_run EXCEPT !.q2 = quantity]
         ELSE [add_run EXCEPT !.base = @ + add_run.q1, !.q1 = add_run.q2, !.q2 = quantity]
    ELSE [user |-> user, key |-> key, product |-> product,
          base |-> before, q1 |-> quantity, q2 |-> 0]

(* ------------------------------ views.py (Spec) ------------------------ *)
(* One request at a time: a handler runs from the arrival of the request   *)
(* to its response, and the response leaves before the next one arrives.   *)
CartView_get(c) ==
    /\ req = NoRequest
    /\ EnsureSession(c)
    /\ req' = Request("get", c, ensured_key(c), None, Absent)
    /\ resp' = custom_response(200, get_cart_items(cart, c.user, ensured_key(c)), {})
    /\ add_run' = NoRun
    /\ UNCHANGED <<cart, next_id, held, workers, catalog>>

CartView_post(c, product_id, quantity) ==
    /\ req = NoRequest
    /\ IF ~CartItemSerializer_is_valid(product_id, quantity)
       THEN /\ req' = Request("post", c, session_key(c), product_id, quantity)
            /\ resp' = custom_response(400, {},
                                       CartItemSerializer_errors(product_id, quantity))
            /\ add_run' = NoRun
            /\ UNCHANGED <<cart, next_id, cookie, session_count, held, workers, catalog>>
       ELSE IF quantity = Absent
       THEN \* validated_data["quantity"] raises KeyError: an unhandled fault
            /\ req' = Request("post", c, session_key(c), product_id, quantity)
            /\ resp' = custom_response(500, {}, {})
            /\ add_run' = NoRun
            /\ UNCHANGED <<cart, next_id, cookie, session_count, held, workers, catalog>>
       ELSE \E key \in {ensured_key(c)} :
            \E before \in {get_or_create_get(cart, c.user, key, product_id)} :
            \E r \in {add_to_cart(cart, next_id, c.user, key, product_id, quantity)} :
                /\ EnsureSession(c)
                /\ r.item.quantity <= MaxQuantity
                /\ r.created => next_id <= MaxId
                /\ req' = Request("post", c, key, product_id, quantity)
                /\ resp' = IF r.ok THEN custom_response(201, {r.item}, {})
                           ELSE custom_response(500, {}, {})
                /\ cart' = r.rows
                /\ next_id' = IF r.created THEN next_id + 1 ELSE next_id
                /\ add_run' =
                       IF ~r.ok THEN NoRun
                       ELSE NextRun(c.user, key, product_id, quantity,
                                    IF before = {} THEN 0
                                    ELSE (CHOOSE b \in before : TRUE).quantity)
                /\ held' = IF r.ok /\ c.user = None
                           THEN [held EXCEPT ![key] = @ \cup {r.item.id}]
                           ELSE held
                /\ UNCHANGED <<workers, catalog>>

CartView_patch(c, item_id, quantity) ==
    /\ req = NoRequest
    /\ \E key \in {ensured_key(c)} :
       \E r \in {update_cart_item(cart, c.user, key, item_id, quantity)} :
        /\ EnsureSession(c)
        /\ req' = Request("patch", c, key, item_id, quantity)
        /\ resp' = IF r.ok THEN custom_response(200, r.item, {})
                   ELSE custom_response(404, {}, {"detail"})
        /\ cart' = r.rows
        /\ add_run' = NoRun
        /\ UNCHANGED <<next_id, held, workers, catalog>>

CartView_delete(c, item_id) ==
    /\ req = NoRequest
    /\ \E key \in {ensured_key(c)} :
       \E r \in {delete_cart_item(cart, c.user, key, item_id)} :
        /\ EnsureSession(c)
        /\ req' = Request("delete", c, key, item_id, Absent)
        /\ resp' = IF r.ok THEN custom_response(200, {}, {})
                   ELSE custom_response(404, {}, {"detail"})
        /\ cart' = r.rows
        /\ add_run' = NoRun
        /\ held' = IF r.ok /\ c.user = None
                   THEN [held EXCEPT ![key] = @ \ {item_id}]
                   ELSE held
        /\ UNCHANGED <<next_id, workers, catalog>>

CartClearView_post(c) ==
    /\ req = NoRequest
    /\ req' = Request("clear", c, session_key(c), None, Absent)
    /\ resp' = custom_response(204, {}, {})
    /\ cart' = clear_cart(cart, c.user, session_key(c))
    /\ add_run' = NoRun
    /\ held' = IF c.user = None /\ session_key(c) # None
               THEN [held EXCEPT ![session_key(c)] = {}]
               ELSE held
    /\ UNCHANGED <<next_id, cookie, session_count, workers, catalog>>



(* the response has left; the server takes the next request *)
Respond ==
    /\ req # NoRequest
    /\ req' = NoRequest
    /\ resp' = NoResponse
    /\ UNCHANGED <<cart, next_id, cookie, session_count, add_run, held, workers, catalog>>

(* ------------------------------ views.py (SpecConc) -------------------- *)
(* Parallel workers, each handling one request at a time.  A step is one   *)
(* SQL statement of the request; the locals of the handler (the session    *)
(* key, the row object read) live in the worker's record.                  *)
NumWorkers == 2

Workers == 1..NumWorkers

(* the requests the workers are driven with: every caller adding,         *)
(* updating, removing and clearing the same in-stock product               *)
ConcCallers == Callers
ConcProductId == 1
ConcAddQuantity == 1
ConcUpdateQuantity == 2

NoItem == [id |-> None, user |-> None, session_id |-> None, product |-> None, quantity |-> 0]

Idle ==
    [pc |-> "idle", op |-> "none", user |-> None, browser |-> None, key |-> None,
     created_session |-> FALSE, target |-> None, quantity |-> 0, item |-> NoItem,
     status |-> 0, base |-> 0, peers |-> {}]

InFlight(w) == workers[w].pc \notin {"idle", "done"}

(* the session key after the guarded request.session.create() *)
StepKey(c) ==
    IF c.user # None \/ session_key(c) # None THEN session_key(c) ELSE session_count + 1

StepSession(c) ==
    IF c.user = None /\ session_key(c) = None
    THEN session_count < MaxSessions /\ session_count' = session_count + 1
    ELSE UNCHANGED session_count

Arrive(w, op, c, target, quantity) ==
    [Idle EXCEPT !.op = op, !.user = c.user, !.browser = c.browser, !.key = StepKey(c),
                 !.created_session = (c.user = None /\ session_key(c) = None),
                 !.target = target, !.quantity = quantity,
                 !.peers = {v \in Workers : v # w /\ InFlight(v)}]

ConcFrame == UNCHANGED <<cookie, req, resp, add_run, held, catalog>>

(* add_to_cart: the session and the SELECT of get_or_create *)
add_get(w, c) ==
    LET found == get_or_create_get(cart, c.user, StepKey(c), ConcProductId)
        a == Arrive(w, "post", c, ConcProductId, ConcAddQuantity)
    IN  /\ workers[w].pc = "idle"
        /\ CartItemSerializer_is_valid(ConcProductId, ConcAddQuantity)
        /\ StepSession(c)
        /\ workers' = [workers EXCEPT ![w] =
               IF found = {}
               THEN [a EXCEPT !.pc = "add_create"]
               ELSE [a EXCEPT !.pc = "add_save",
                              !.item = CHOOSE r \in found : TRUE,
                              !.base = (CHOOSE r \in found : TRUE).quantity]]
        /\ UNCHANGED <<cart, next_id>>
        /\ ConcFrame

(* add_to_cart: the INSERT of get_or_create, under the unique constraints *)
add_create(w) ==
    LET me == workers[w]
        c == get_or_create_create(cart, next_id, me.user, me.key, me.target, me.quantity)
    IN  /\ me.pc = "add_create"
        /\ next_id <= MaxId
        /\ cart' = c.rows
        /\ next_id' = IF c.ok THEN next_id + 1 ELSE next_id
        /\ workers' = [workers EXCEPT ![w] =
               IF c.ok THEN [me EXCEPT !.pc = "done", !.item = c.item, !.status = 201]
               ELSE [me EXCEPT !.pc = "add_reget"]]
        /\ UNCHANGED session_count
        /\ ConcFrame

(* add_to_cart: the second SELECT of get_or_create, after IntegrityError *)
add_reget(w) ==
    LET me == workers[w]
        found == get_or_create_get(cart, me.user, me.key, me.target)
    IN  /\ me.pc = "add_reget"
        /\ workers' = [workers EXCEPT ![w] =
               IF found = {}
               THEN [me EXCEPT !.pc = "done", !.status = 500]
               ELSE [me EXCEPT !.pc = "add_save", !.item = CHOOSE r \in found : TRUE]]
        /\ UNCHANGED <<cart, next_id, session_count>>
        /\ ConcFrame

(* add_to_cart: cart_item.quantity += quantity; cart_item.save() *)
add_save(w) ==
    LET me == workers[w]
        item == [me.item EXCEPT !.quantity = @ + me.quantity]
        s == save(cart, item)
    IN  /\ me.pc = "add_save"
        /\ item.quantity <= MaxQuantity
        /\ cart' = s.rows
        /\ workers' = [workers EXCEPT ![w] =
               [me EXCEPT !.pc = "done", !.item = item,
                          !.status = IF s.ok THEN 201 ELSE 500]]
        /\ UNCHANGED <<next_id, session_count>>
        /\ ConcFrame

(* update_cart_item and delete_cart_item: get_cart_items(request).get(pk=item_id) *)
item_get(w, c, op, item_id, quantity) ==
    LET found == {r \in get_cart_items(cart, c.user, StepKey(c)) : r.id = item_id}
        a == Arrive(w, op, c, item_id, quantity)
    IN  /\ workers[w].pc = "idle"
        /\ StepSession(c)
        /\ workers' = [workers EXCEPT ![w] =
               IF found = {}
               THEN [a EXCEPT !.pc = "done", !.status = 404]
               ELSE [a EXCEPT !.pc = IF op = "patch" THEN "update_save" ELSE "delete_delete",
                              !.item = CHOOSE r \in found : TRUE]]
        /\ UNCHANGED <<cart, next_id>>
        /\ ConcFrame

(* update_cart_item: item.quantity = quantity; item.save() *)
update_save(w) ==
    LET me == workers[w]
        item == [me.item EXCEPT !.quantity = me.quantity]
        s == save(cart, item)
    IN  /\ me.pc = "update_save"
        /\ cart' = s.rows
        /\ workers' = [workers EXCEPT ![w] =
               [me EXCEPT !.pc = "done", !.item = item,
                          !.status = IF s.ok THEN 200 ELSE 404]]
        /\ UNCHANGED <<next_id, session_count>>
        /\ ConcFrame

(* delete_cart_item: item.delete() *)
delete_delete(w) ==
    LET me == workers[w]
    IN  /\ me.pc = "delete_delete"
        /\ cart' = delete(cart, me.item)
        /\ workers' = [workers EXCEPT ![w] = [me EXCEPT !.pc = "done", !.status = 200]]
        /\ UNCHANGED <<next_id, session_count>>
        /\ ConcFrame

(* clear_cart: one DELETE; no session is created *)
clear_delete(w, c) ==
    /\ workers[w].pc = "idle"
    /\ cart' = clear_cart(cart, c.user, session_key(c))
    /\ workers' = [workers EXCEPT ![w] =
           [Arrive(w, "clear", c, None, 0) EXCEPT
                !.pc = "done", !.status = 204, !.key = session_key(c),
                !.created_session = FALSE]]
    /\ UNCHANGED <<next_id, session_count>>
    /\ ConcFrame

(* the response leaves: a session created by the request reaches the      *)
(* browser as its cookie                                                   *)
Finish(w) ==
    LET me == workers[w]
    IN  /\ me.pc = "done"
        /\ cookie' = IF me.created_session THEN [cookie EXCEPT ![me.browser] = me.key]
                     ELSE cookie
        /\ workers' = [v \in Workers |->
               IF v = w THEN Idle ELSE [workers[v] EXCEPT !.peers = @ \ {w}]]
        /\ UNCHANGED <<cart, next_id, session_count, req, resp, add_run, held, catalog>>

(* ------------------------------ text ----------------------------------- *)
(* A string is a sequence of one-character strings.                        *)
UpperCase ==
    <<"A", "B", "C", "D", "E", "F", "G", "H", "I", "J", "K", "L", "M", "N",
      "O", "P", "Q", "R", "S", "T", "U", "V", "W", "X", "Y", "Z">>

LowerCase ==
    <<"a", "b", "c", "d", "e", "f", "g", "h", "i", "j", "k", "l", "m", "n",
      "o", "p", "q", "r", "s", "t", "u", "v", "w", "x", "y", "z">>

Letters == {UpperCase[i] : i \in 1..Len(UpperCase)} \cup {LowerCase[i] : i \in 1..Len(LowerCase)}

Digits == <<"0", "1", "2", "3", "4", "5", "6", "7", "8", "9">>

(* str.lower() *)
lower(ch) ==
    IF \E i \in 1..Len(UpperCase) : UpperCase[i] = ch
    THEN LowerCase[CHOOSE i \in 1..Len(UpperCase) : UpperCase[i] = ch]
    ELSE ch

RECURSIVE str_lower(_)
str_lower(s) == IF s = <<>> THEN <<>> ELSE <<lower(Head(s))>> \o str_lower(Tail(s))

(* the regex classes \w and [-\s] *)
IsWord(ch) == ch \in Letters \cup {Digits[i] : i \in 1..Len(Digits)} \cup {"_"}

IsSeparator(ch) == ch \in {" ", "-"}

(* re.sub(r"[^\w\s-]", "", value) *)
RECURSIVE remove_other(_)
remove_other(s) ==
    IF s = <<>> THEN <<>>
    ELSE (IF IsWord(Head(s)) \/ IsSeparator(Head(s)) THEN <<Head(s)>> ELSE <<>>)
             \o remove_other(Tail(s))

RECURSIVE lstrip(_, _)
lstrip(s, chars) == IF s # <<>> /\ Head(s) \in chars THEN lstrip(Tail(s), chars) ELSE s

RECURSIVE rstrip(_, _)
rstrip(s, chars) ==
    IF s # <<>> /\ s[Len(s)] \in chars THEN rstrip(SubSeq(s, 1, Len(s) - 1), chars) ELSE s

(* re.sub(r"[-\s]+", "-", value) *)
RECURSIVE hyphenate(_)
hyphenate(s) ==
    IF s = <<>> THEN <<>>
    ELSE IF IsSeparator(Head(s))
         THEN <<"-">> \o hyphenate(lstrip(Tail(s), {" ", "-"}))
         ELSE <<Head(s)>> \o hyphenate(Tail(s))

(* django.utils.text.slugify: lower-case, drop what is neither a word      *)
(* character, white space nor a hyphen, turn every run of white space and  *)
(* hyphens into one hyphen, strip hyphens and underscores at both ends     *)
slugify(value) ==
    rstrip(lstrip(hyphenate(remove_other(str_lower(value))), {"-", "_"}), {"-", "_"})

(* the slice value[:n] *)
truncate(value, n) == SubSeq(value, 1, IF Len(value) < n THEN Len(value) ELSE n)

(* str(num) of the f-string *)
RECURSIVE str(_)
str(n) == IF n < 10 THEN <<Digits[n + 1]>> ELSE str(n \div 10) \o <<Digits[(n % 10) + 1]>>

(* value.lower() in other.lower(): the icontains lookup *)
icontains(value, search) ==
    \E v \in {str_lower(value)}, t \in {str_lower(search)} :
        \E i \in 0..(Len(v) - Len(t)) : SubSeq(v, i + 1, i + Len(t)) = t

(* ------------------------------ models.py: slugs ----------------------- *)
SlugCut == 200

Models == {"Brand", "Category", "Product"}

(* Model.objects.filter(slug=slug).exclude(pk=instance.pk).exists() *)
slug_exists(rows, pk, slug) == \E r \in rows : r.slug = slug /\ r.id # pk

(* the while loop of generate_unique_slug, entered with the current slug and num *)
RECURSIVE probe(_, _, _, _, _)
probe(rows, pk, base_slug, slug, num) ==
    IF slug_exists(rows, pk, slug)
    THEN probe(rows, pk, base_slug, base_slug \o <<"-">> \o str(num), num + 1)
    ELSE slug

(* a probe that stops at the first numbered candidate *)
generate_unique_slug_once(rows, pk, value) ==
    LET base_slug == truncate(slugify(value), SlugCut)
    IN  IF slug_exists(rows, pk, base_slug) THEN base_slug \o <<"-">> \o str(1) ELSE base_slug

generate_unique_slug(rows, pk, value) ==
    LET base_slug == truncate(slugify(value), SlugCut)
    IN  probe(rows, pk, base_slug, base_slug, 1)

(* the unique=True columns: slug in every model, name in Brand and Category *)
unique_slug(rows) == \A r1, r2 \in rows : r1.slug = r2.slug => r1.id = r2.id

unique_name(rows) == \A r1, r2 \in rows : r1.name = r2.name => r1.id = r2.id

(* a save() that makes the slug from the name every time *)
Model_save_reslug(m, rows, nid, instance) ==
    LET slug == generate_unique_slug(rows, instance.id, instance.name)
        item == [instance EXCEPT !.slug = slug, !.id = IF @ = None THEN nid ELSE @]
        new == {r \in rows : r.id # item.id} \cup {item}
        ok == unique_slug(new) /\ (m \in {"Brand", "Category"} => unique_name(new))
    IN  [ok |-> ok, rows |-> IF ok THEN new ELSE rows, item |-> item]

(* Brand.save, Category.save and Product.save: the slug is generated when  *)
(* the instance has none; super().save() inserts a new instance under the  *)
(* next primary key and updates one that has a key.  IntegrityError leaves *)
(* the table as it was.                                                    *)
Model_save(m, rows, nid, instance) ==
    LET slug == IF instance.slug = <<>>
                THEN generate_unique_slug(rows, instance.id, instance.name)
                ELSE instance.slug
        item == [instance EXCEPT !.slug = slug, !.id = IF @ = None THEN nid ELSE @]
        new == {r \in rows : r.id # item.id} \cup {item}
        ok == unique_slug(new) /\ (m \in {"Brand", "Category"} => unique_name(new))
    IN  [ok |-> ok, rows |-> IF ok THEN new ELSE rows, item |-> item]

(* ------------------------------ the catalog tables --------------------- *)
MaxRows == 3

(* the strings the operations are driven with *)
RedShoe == <<"R", "e", "d", " ", "S", "h", "o", "e">>
RedShoeSpaced == <<"r", "e", "d", " ", " ", "S", "h", "o", "e", "!">>
RedShoe1 == <<"R", "e", "d", " ", "S", "h", "o", "e", " ", "1">>
Bang == <<"!">>
TestBrand == <<"T", "e", "s", "t", "B", "r", "a", "n", "d">>
TestCategory == <<"T", "e", "s", "t", "C", "a", "t", "e", "g", "o", "r", "y">>

NameInputs == {RedShoe, RedShoeSpaced, RedShoe1, Bang}

(* the names a record is renamed to *)
RenameInputs == {RedShoe1, Bang}

(* no slug given, or one given by the caller *)
SlugInputs == {<<>>, slugify(RedShoe1)}

(* a model instance that has not been saved: pk is None *)
Brand_new(name, slug) == [id |-> None, name |-> name, slug |-> slug]

Product_new(name, slug, brand, category, description, price, rating, in_stock, now) ==
    [id |-> None, name |-> name, slug |-> slug, brand |-> brand, category |-> category,
     description |-> description, price |-> price, rating |-> rating,
     in_stock |-> in_stock, created_at |-> now]

Table(rows, nid) == [objects |-> rows, next_id |-> nid]

(* Model.objects.create(...) on a table *)
objects_create(m, table, instance) ==
    LET r == Model_save(m, table.objects, table.next_id, instance)
    IN  [ok |-> r.ok, item |-> r.item,
         table |-> Table(r.rows, IF r.ok THEN table.next_id + 1 ELSE table.next_id)]

(* the tables after ProductAPITestCase.setUp: one brand, one category *)
SetUp ==
    [Brand |-> objects_create("Brand", Table({}, 1),
                              Brand_new(TestBrand, str_lower(TestBrand))).table,
     Category |-> objects_create("Category", Table({}, 1),
                                 Brand_new(TestCategory, str_lower(TestCategory))).table,
     Product |-> Table({}, 1)]

Rows(c) == Cardinality(c["Brand"].objects) + Cardinality(c["Category"].objects)
               + Cardinality(c["Product"].objects)

CartFrame == UNCHANGED <<cart, next_id, cookie, session_count, add_run, held, workers>>

(* an ORM call and its outcome, kept where the cart keeps request and response *)
Call(op, m, id, name, slug) == [op |-> op, model |-> m, id |-> id, name |-> name, slug |-> slug]

Outcome(r) ==
    custom_response(0, IF r.ok THEN {r.item} ELSE {}, IF r.ok THEN {} ELSE {"IntegrityError"})

(* Brand.objects.create(name=..., slug=...), and the same for the other    *)
(* models; a product is created under the brand and category of setUp      *)
Model_objects_create(m, name, slug) ==
    /\ req = NoRequest
    /\ Rows(catalog) < Rows(SetUp) + MaxRows
    /\ \E r \in {objects_create(m, catalog[m],
                     IF m = "Product"
                     THEN Product_new(name, slug, 1, 1, <<>>, 1000, 0, TRUE,
                                      catalog[m].next_id)
                     ELSE Brand_new(name, slug))} :
        /\ catalog' = [catalog EXCEPT ![m] = r.table]
        /\ req' = Call("create", m, r.item.id, name, slug)
        /\ resp' = Outcome(r)
    /\ CartFrame

(* obj = Model.objects.get(pk=id); obj.name = name; obj.save() *)
Model_rename_save(m, id, name) ==
    /\ req = NoRequest
    /\ \E old \in catalog[m].objects :
        /\ old.id = id
        /\ \E r \in {Model_save(m, catalog[m].objects, catalog[m].next_id,
                                [old EXCEPT !.name = name])} :
            /\ catalog' = [catalog EXCEPT ![m].objects = r.rows]
            /\ req' = Call("save", m, id, name, old.slug)
            /\ resp' = Outcome(r)
    /\ CartFrame

(* ------------------------------ serializers.py: ProductSerializer ------ *)
(* request.data is a function from the keys sent to their values; a price  *)
(* or a rating is a number of hundredths.                                  *)
get(data, key, default) == IF key \in DOMAIN data THEN data[key] ELSE default

(* `value < 0.01` compares the Decimal with the float 0.01, which lies     *)
(* above one hundredth: a price of 0.01 is below it                        *)
validate_price(value) == ~(value <= 1)

validate_rating(value) == ~(value < 0 \/ value > 500)

(* an object-level check that lets every product through *)
ProductSerializer_validate_any(data) == TRUE

ProductSerializer_validate(data) ==
    ~(~get(data, "in_stock", TRUE) /\ get(data, "price", 0) > 0)

(* serializer.errors: the field errors (name and price are required, the   *)
(* slug must be new, brand_id and category_id must name a row, price and   *)
(* rating pass the model validators and validate_<field>) and, when there  *)
(* are none, the object-level check                                        *)
ProductSerializer_errors(c, data) ==
    LET field_errors ==
            (IF get(data, "name", <<>>) = <<>> THEN {"name"} ELSE {})
            \cup (IF get(data, "slug", <<>>) # <<>>
                      /\ \E r \in c["Product"].objects : r.slug = data["slug"]
                  THEN {"slug"} ELSE {})
            \cup (IF "brand_id" \in DOMAIN data
                      /\ \E r \in c["Brand"].objects : r.id = data["brand_id"]
                  THEN {} ELSE {"brand_id"})
            \cup (IF "category_id" \in DOMAIN data
                      /\ \E r \in c["Category"].objects : r.id = data["category_id"]
                  THEN {} ELSE {"category_id"})
            \cup (IF "price" \in DOMAIN data /\ data["price"] >= 1
                      /\ validate_price(data["price"])
                  THEN {} ELSE {"price"})
            \cup (IF "rating" \in DOMAIN data
                      /\ ~(data["rating"] >= 0 /\ data["rating"] <= 500
                             /\ validate_rating(data["rating"]))
                  THEN {"rating"} ELSE {})
    IN  IF field_errors # {} THEN field_errors
        ELSE IF ProductSerializer_validate(data) THEN {} ELSE {"in_stock"}

ProductSerializer_is_valid(c, data) == ProductSerializer_errors(c, data) = {}

(* ------------------------------ views.py: ProductListView.post --------- *)
(* request.user.is_staff: user 1 is the superuser of setUp *)
StaffUsers == {1}

(* a check that lets every authenticated user through *)
is_admin_authenticated(c) == c.user # None

(* request.user.is_authenticated and request.user.is_staff *)
is_admin(c) == c.user # None /\ c.user \in StaffUsers

(* service.create_product(validated_data): stores the product with the    *)
(* validated fields and the defaults of the model                          *)
create_product(table, validated_data) ==
    objects_create("Product", table,
        Product_new(validated_data["name"], get(validated_data, "slug", <<>>),
                    validated_data["brand_id"], validated_data["category_id"],
                    <<>>, validated_data["price"], get(validated_data, "rating", 0),
                    get(validated_data, "in_stock", TRUE), table.next_id))

ProductRequest(op, c, data) == [op |-> op, user |-> c.user, browser |-> c.browser, data |-> data]

(* the bodies the create requests are driven with *)
ProductDataInputs ==
    LET required == [name : {RedShoe, Bang}, brand_id : {1, MaxRows + 2},
                     category_id : {1}, price : {0, 1, 1000}]
        with_slug == required \cup {d @@ [slug |-> g] : d \in required, g \in SlugInputs \ {<<>>}}
        with_stock == with_slug \cup {d @@ [in_stock |-> b] : d \in with_slug, b \in BOOLEAN}
    IN  with_stock \cup {d @@ [rating |-> 600] : d \in with_stock}

ProductListView_post(c, data) ==
    /\ req = NoRequest
    /\ req' = ProductRequest("product_post", c, data)
    /\ IF ~is_admin(c)
       THEN /\ resp' = custom_response(403, {}, {"detail"})
            /\ UNCHANGED catalog
       ELSE IF ~ProductSerializer_is_valid(catalog, data)
       THEN /\ resp' = custom_response(400, {}, ProductSerializer_errors(catalog, data))
            /\ UNCHANGED catalog
       ELSE \E r \in {create_product(catalog["Product"], data)} :
                /\ Cardinality(catalog["Product"].objects) < MaxRows
                /\ resp' = IF r.ok THEN custom_response(201, {r.item}, {})
                           ELSE custom_response(500, {}, {})
                /\ catalog' = [catalog EXCEPT !["Product"] = r.table]
    /\ CartFrame

(* ------------------------------ service.py: get_products --------------- *)
(* request.query_params is a function from the keys sent to their values,  *)
(* which are strings.                                                      *)
IsDigit(ch) == \E i \in 1..Len(Digits) : Digits[i] = ch

digit_value(ch) == CHOOSE i \in 0..9 : Digits[i + 1] = ch

(* int(value) of the primary-key lookups; ValueError when not a number *)
is_int(s) == s # <<>> /\ \A i \in 1..Len(s) : IsDigit(s[i])

RECURSIVE int(_)
int(s) ==
    IF Len(s) = 1 THEN digit_value(s[1])
    ELSE 10 * int(SubSeq(s, 1, Len(s) - 1)) + digit_value(s[Len(s)])

(* Decimal(value) of the price lookups, in hundredths: digits, then at     *)
(* most two digits after a point                                           *)
point(s) == IF \E i \in 1..Len(s) : s[i] = "." THEN CHOOSE i \in 1..Len(s) : s[i] = "."
            ELSE Len(s) + 1

decimal(s) ==
    LET whole == SubSeq(s, 1, point(s) - 1)
        frac == SubSeq(s, point(s) + 1, Len(s))
    IN  100 * int(whole)
            + (IF frac = <<>> THEN 0 ELSE IF Len(frac) = 1 THEN 10 * int(frac) ELSE int(frac))

(* filters.get(key) is truthy: the key was sent with a non-empty value *)
truthy(filters, key) == get(filters, key, <<>>) # <<>>

filter_brand(rows, filters) ==
    IF truthy(filters, "brand")
    THEN {r \in rows : r.brand = int(filters["brand"])} ELSE rows

filter_category(rows, filters) ==
    IF truthy(filters, "category")
    THEN {r \in rows : r.category = int(filters["category"])} ELSE rows

(* filters.get("in_stock") is not None; value.lower() in ["true", "1"] *)
filter_in_stock(rows, filters) ==
    IF "in_stock" \in DOMAIN filters
    THEN {r \in rows : r.in_stock = (str_lower(filters["in_stock"]) \in {<<"t", "r", "u", "e">>, <<"1">>})}
    ELSE rows

filter_min_price(rows, filters) ==
    IF truthy(filters, "min_price")
    THEN {r \in rows : r.price >= decimal(filters["min_price"])} ELSE rows

(* price__lt in the place of price__lte *)
filter_max_price_lt(rows, filters) ==
    IF truthy(filters, "max_price")
    THEN {r \in rows : r.price < decimal(filters["max_price"])} ELSE rows

filter_max_price(rows, filters) ==
    IF truthy(filters, "max_price")
    THEN {r \in rows : r.price <= decimal(filters["max_price"])} ELSE rows

filter_search(rows, filters) ==
    IF truthy(filters, "search")
    THEN {r \in rows : \/ icontains(r.name, filters["search"])
                       \/ icontains(r.description, filters["search"])}
    ELSE rows

(* the columns of Product an ordering can name, among those the requests   *)
(* are driven with                                                         *)
OrderFields == {<<"i", "d">>, <<"p", "k">>, <<"n", "a", "m", "e">>, <<"p", "r", "i", "c", "e">>, <<"r", "a", "t", "i", "n", "g">>, <<"c", "r", "e", "a", "t", "e", "d", "_", "a", "t">>}

order_field(ordering) == IF Head(ordering) = "-" THEN Tail(ordering) ELSE ordering

(* queryset.order_by(name) resolves the name at once: FieldError when it   *)
(* is no field of Product                                                  *)
order_by_resolves(ordering) == order_field(ordering) \in OrderFields

(* The QuerySet get_products returns: the rows it selects and the ordering *)
(* it was given (none: Meta.ordering, newest first), or the exception a    *)
(* lookup value or an ordering name raised.                                *)
get_products(rows, filters) ==
    IF \/ truthy(filters, "brand") /\ ~is_int(filters["brand"])
       \/ truthy(filters, "category") /\ ~is_int(filters["category"])
    THEN [error |-> "ValueError", rows |-> {}, ordering |-> <<>>]
    ELSE LET selected ==
                 filter_search(
                     filter_max_price(
                         filter_min_price(
                             filter_in_stock(
                                 filter_category(filter_brand(rows, filters), filters),
                                 filters),
                             filters),
                         filters),
                     filters)
         IN  IF truthy(filters, "ordering")
             THEN IF order_by_resolves(filters["ordering"])
                  THEN [error |-> "", rows |-> selected, ordering |-> filters["ordering"]]
                  ELSE [error |-> "FieldError", rows |-> {}, ordering |-> <<>>]
             ELSE [error |-> "", rows |-> selected, ordering |-> <<"-", "c", "r", "e", "a", "t", "e", "d", "_", "a", "t">>]

(* ------------------------------ views.py: ProductListView.get ---------- *)
PageSize == 10

(* the order of the characters *)
Chars == <<" ", "!", "-", ".">> \o Digits \o UpperCase \o <<"_">> \o LowerCase

ord(ch) == CHOOSE i \in 1..Len(Chars) : Chars[i] = ch

RECURSIVE str_lt(_, _)
str_lt(a, b) ==
    IF b = <<>> THEN FALSE
    ELSE IF a = <<>> THEN TRUE
    ELSE IF Head(a) = Head(b) THEN str_lt(Tail(a), Tail(b))
    ELSE ord(Head(a)) < ord(Head(b))

(* ORDER BY column: row a sorts strictly before row b *)
sorts_before(a, b, field) ==
    CASE field = <<"n", "a", "m", "e">> -> str_lt(a.name, b.name)
      [] field = <<"p", "r", "i", "c", "e">> -> a.price < b.price
      [] field = <<"r", "a", "t", "i", "n", "g">> -> a.rating < b.rating
      [] field = <<"c", "r", "e", "a", "t", "e", "d", "_", "a", "t">> -> a.created_at < b.created_at
      [] OTHER -> a.id < b.id

(* the lists the database may return for the QuerySet: every order of its  *)
(* rows that follows the ORDER BY column; rows that tie come in any order  *)
evaluate(qs) ==
    LET n == Cardinality(qs.rows)
        desc == Head(qs.ordering) = "-"
        field == order_field(qs.ordering)
    IN  {l \in [1..n -> qs.rows] :
            /\ \A i, j \in 1..n : i # j => l[i] # l[j]
            /\ \A i, j \in 1..n :
                   i < j => IF desc THEN ~sorts_before(l[i], l[j], field)
                            ELSE ~sorts_before(l[j], l[i], field)}

(* the query strings the list requests are driven with *)
QueryInputs ==
    LET with(set, key, values) == set \cup {d @@ (key :> v) : d \in set, v \in values}
    IN  with(with(with(with(with(with(with({<<>>},
            "brand", {<<>>, <<"1">>, <<"2">>, <<"r">>}),
            "category", {<<"1">>, <<"2">>}),
            "in_stock", {<<>>, <<"1">>, <<"T", "r", "u", "e">>}),
            "min_price", {<<>>, <<"7", ".", "5", "0">>}),
            "max_price", {<<"1", "0">>}),
            "search", {<<>>, <<"R", "E", "D">>}),
            "ordering", {<<>>, <<"p", "r", "i", "c", "e">>, <<"-", "p", "r", "i", "c", "e">>, <<"n", "a", "m", "e">>, <<"i", "d">>, <<"b", "o", "d", "y">>})

(* paginate_queryset evaluates the QuerySet and cuts the first page; an    *)
(* exception of the query layer is not caught and answers 500              *)
ProductListView_get ==
    /\ req = NoRequest
    /\ \E filters \in QueryInputs :
       \E qs \in {get_products(catalog["Product"].objects, filters)} :
        /\ req' = [op |-> "product_list", filters |-> filters]
        /\ IF qs.error # ""
           THEN resp' = custom_response(500, [count |-> 0, results |-> <<>>], {qs.error})
           ELSE \E l \in evaluate(qs) :
                   resp' = custom_response(200,
                               [count |-> Len(l),
                                results |-> SubSeq(l, 1, IF Len(l) < PageSize THEN Len(l)
                                                         ELSE PageSize)],
                               {})
    /\ UNCHANGED catalog
    /\ CartFrame

(* ------------------------------ a stocked catalog ---------------------- *)
(* The catalog the cart and the product list run against: the brand and    *)
(* category of setUp and a second of each, and products 1..NumProducts     *)
(* created in turn, the last one out of stock.                             *)
StockNames == <<RedShoe, Bang, TestBrand>>

StockProduct(p) ==
    Product_new(StockNames[((p - 1) % Len(StockNames)) + 1], <<>>,
                ((p - 1) % 2) + 1, (((p - 1) \div 2) % 2) + 1,
                IF p % 2 = 0 THEN <<"r", "e", "d">> ELSE <<>>,
                500 * p, (150 * p) % 501, p < NumProducts, p)

RECURSIVE Stocked(_)
Stocked(n) ==
    IF n = 0
    THEN [SetUp EXCEPT
            !["Brand"] = objects_create("Brand", @, Brand_new(RedShoe, <<>>)).table,
            !["Category"] = objects_create("Category", @, Brand_new(RedShoe, <<>>)).table]
    ELSE [Stocked(n - 1) EXCEPT
            !["Product"] = objects_create("Product", @, StockProduct(n)).table]

InitCart ==
    /\ cart = {}
    /\ next_id = 1
    /\ cookie = [b \in Browsers |-> None]
    /\ session_count = 0
    /\ req = NoRequest
    /\ resp = NoResponse
    /\ add_run = NoRun
    /\ held = [k \in SessionKeys |-> {}]
    /\ workers = [w \in Workers |-> Idle]

(* the cart runs against the stocked catalog *)
Init == InitCart /\ catalog = Stocked(NumProducts)

(* the catalog operations start from the tables of setUp *)
InitSetUp == InitCart /\ catalog = SetUp

(* a product list runs against any part of the stocked catalog *)
InitList ==
    /\ InitCart
    /\ \E kept \in SUBSET Stocked(NumProducts)["Product"].objects :
           catalog = [Stocked(NumProducts) EXCEPT !["Product"].objects = kept]

Next ==
    \/ \E c \in Callers : CartView_get(c)
    \/ \E c \in Callers, p \in ProductIdInputs, q \in QuantityInputs : CartView_post(c, p, q)
    \/ \E c \in Callers, i \in ItemIdInputs, q \in QuantityInputs : CartView_patch(c, i, q)
    \/ \E c \in Callers, i \in ItemIdInputs : CartView_delete(c, i)
    \/ \E c \in Callers : CartClearView_post(c)
    \/ Respond

Spec == Init /\ [][Next]_vars

NextConc ==
    \/ \E w \in Workers, c \in ConcCallers : add_get(w, c)
    \/ \E w \in Workers : add_create(w)
    \/ \E w \in Workers : add_reget(w)
    \/ \E w \in Workers : add_save(w)
    \/ \E w \in Workers, c \in ConcCallers, i \in 1..MaxId :
           item_get(w, c, "patch", i, ConcUpdateQuantity)
    \/ \E w \in Workers, c \in ConcCallers, i \in 1..MaxId : item_get(w, c, "delete", i, 0)
    \/ \E w \in Workers : update_save(w)
    \/ \E w \in Workers : delete_delete(w)
    \/ \E w \in Workers, c \in ConcCallers : clear_delete(w, c)
    \/ \E w \in Workers : Finish(w)

SpecConc == Init /\ [][NextConc]_vars

(* the models under the ORM calls of the tests and the admin site *)
NextCatalog ==
    \/ \E m \in Models, n \in NameInputs, g \in SlugInputs : Model_objects_create(m, n, g)
    \/ \E m \in Models, i \in 1..(MaxRows + 1), n \in RenameInputs : Model_rename_save(m, i, n)
    \/ Respond

SpecCatalog == InitSetUp /\ [][NextCatalog]_vars

(* product creation through the API *)
NextCreate ==
    \/ \E c \in Callers, data \in ProductDataInputs : ProductListView_post(c, data)
    \/ Respond

SpecCreate == InitSetUp /\ [][NextCreate]_vars

(* the product list *)
NextList ==
    \/ ProductListView_get
    \/ Respond

SpecList == InitList /\ [][NextList]_vars

(* ------------------------------ properties ----------------------------- *)
(* the rows of the owner a request resolves to: the user, or the session   *)
(* the anonymous caller holds                                              *)
Owns(q, r) ==
    \/ q.user # None /\ r.user = q.user
    \/ q.user = None /\ q.key # None /\ r.user = None /\ r.session_id = q.key

OwnedRows(q, rows) == {r \in rows : Owns(q, r)}

(* the rows of one owner+product pair *)
PairRows(user, key, product) ==
    {r \in cart : r.user = user /\ r.session_id = key /\ r.product = product}

(* a handler has just run: the step from the arrival of a request to its response *)
Handled(op) == req = NoRequest /\ req'.op = op

(* C1: when the last two requests were successful Adds of q1 and q2 for    *)
(* the same owner and product, there is exactly one row for the pair and   *)
(* its quantity is what the pair held before the first Add (0 if it had no *)
(* row) plus q1 + q2.                                                      *)
C1_TwoAddsOneRowSummed ==
    (req.op = "post" /\ resp.status = 201 /\ add_run.q2 # 0) =>
        /\ Cardinality(PairRows(add_run.user, add_run.key, add_run.product)) = 1
        /\ \A r \in PairRows(add_run.user, add_run.key, add_run.product) :
               r.quantity = add_run.base + add_run.q1 + add_run.q2

(* C1 witness: Add 1 then Add 2 to a pair that had no row leaves one row of 3 *)
C1_Witness ==
    /\ req.op = "post" /\ resp.status = 201
    /\ add_run.base = 0 /\ add_run.q1 = 1 /\ add_run.q2 = 2
    /\ \E r \in cart : PairRows(add_run.user, add_run.key, add_run.product) = {r}
                        /\ r.quantity = 3

(* C2: two overlapping Adds (one arrived while the other was in flight)    *)
(* for the same owner and product that saw the same quantity on arrival    *)
(* and both answered 201 leave a row holding both increments.              *)
C2_NoLostIncrement ==
    \A i, j \in Workers :
        ( /\ i # j
          /\ workers[i].pc = "done" /\ workers[j].pc = "done"
          /\ workers[i].op = "post" /\ workers[j].op = "post"
          /\ workers[i].status = 201 /\ workers[j].status = 201
          /\ workers[i].user = workers[j].user
          /\ workers[i].key = workers[j].key
          /\ workers[i].target = workers[j].target
          /\ workers[i].base = workers[j].base
          /\ i \in workers[j].peers )
        => \E r \in PairRows(workers[i].user,
                             IF workers[i].user # None THEN None ELSE workers[i].key,
                             workers[i].target) :
               r.quantity = workers[i].base + workers[i].quantity + workers[j].quantity

(* C3: at most one row per (user, product) and per (session_id, product)   *)
C3_OneRowPerOwnerProduct ==
    /\ \A u \in Users, p \in 1..NumProducts :
           Cardinality({r \in cart : r.user = u /\ r.product = p}) <= 1
    /\ \A k \in SessionKeys, p \in 1..NumProducts :
           Cardinality({r \in cart : r.session_id = k /\ r.product = p}) <= 1

(* C3 witness: an Add whose INSERT the unique constraint refused, because  *)
(* a concurrent Add had created the row of the pair in the meantime        *)
C3_Witness ==
    \E w \in Workers :
        /\ workers[w].pc = "add_reget"
        /\ Cardinality({r \in cart : r.product = workers[w].target
                                      /\ r.user = workers[w].user
                                      /\ (workers[w].user = None
                                            => r.session_id = workers[w].key)}) = 1

(* C4: an Update naming a row that exists and is not the caller's answers  *)
(* 404 and leaves the whole table as it was.                               *)
C4_ForeignUpdateNotFound ==
    [][(Handled("patch") /\ \E r \in cart : r.id = req'.target /\ ~Owns(req', r))
          => (resp'.status = 404 /\ cart' = cart)]_vars

(* C4 witness: a user was answered 404 for an Update of another user's row *)
C4_Witness ==
    /\ req.op = "patch" /\ resp.status = 404 /\ req.user # None
    /\ req.quantity >= 1
    /\ \E r \in cart : r.id = req.target /\ r.user # None /\ r.user # req.user

(* C5: Clear removes the rows of the resolved owner and no other row; an   *)
(* anonymous caller without a session owns no row.                         *)
C5_ClearOnlyOwnRows ==
    [][Handled("clear") => cart' = cart \ OwnedRows(req', cart)]_vars

(* C6: a List under session S returns exactly the rows S added and has not *)
(* removed or cleared, and a request of an anonymous caller under another  *)
(* session (or none) leaves the rows of S as they are.                     *)
C6_SessionCartKeptAndIsolated ==
    /\ []((req.op = "get" /\ req.user = None) =>
             /\ {r.id : r \in resp.data} = held[req.key]
             /\ \A r \in resp.data : r.session_id = req.key /\ r \in cart)
    /\ [][\A k \in SessionKeys :
             (req = NoRequest /\ req' # NoRequest /\ req'.user = None /\ req'.key # k)
                 => {r \in cart' : r.session_id = k} = {r \in cart : r.session_id = k}]_vars

(* C6 witness: a List under one session returned its row while another     *)
(* session holds a row too                                                 *)
C6_Witness ==
    /\ req.op = "get" /\ req.user = None /\ resp.data # {}
    /\ \E r \in cart : r.session_id # None /\ r.session_id # req.key

(* C7: every stored row has quantity >= 1 *)
C7_QuantityAtLeastOne == \A r \in cart : r.quantity >= 1

(* C8: an Add with a quantity below 1, an unknown product id or a product  *)
(* out of stock answers 400 and leaves the table as it was.                *)
C8_InvalidAddRejected ==
    [][(/\ Handled("post")
        /\ \/ req'.quantity # Absent /\ req'.quantity < 1
           \/ req'.target \notin 1..NumProducts
           \/ \E p \in Product_objects : p.id = req'.target /\ ~p.in_stock)
          => (resp'.status = 400 /\ cart' = cart)]_vars

(* C8 witness: an Add of quantity 0 to a pair that has a row was answered  *)
(* 400 and the row is as it was                                            *)
C8_Witness ==
    /\ req.op = "post" /\ resp.status = 400 /\ req.quantity = 0
    /\ \E r \in cart : r.product = req.target /\ Owns(req, r) /\ r.quantity = 1

(* C9: a Remove naming a row of the caller answers 200 and deletes that    *)
(* row alone; any other Remove answers 404 and deletes nothing.            *)
C9_RemoveExactlyOwnRow ==
    [][Handled("delete") =>
          IF \E r \in cart : r.id = req'.target /\ Owns(req', r)
          THEN /\ resp'.status = 200
               /\ cart' = {r \in cart : r.id # req'.target}
          ELSE /\ resp'.status = 404
               /\ cart' = cart]_vars

(* C9 witness: a Remove was answered 200 and another row of the same owner *)
(* is still there                                                          *)
C9_Witness ==
    /\ req.op = "delete" /\ resp.status = 200
    /\ \E r \in cart : Owns(req, r)

(* C10: a Clear by an owner that has no row answers 204 and leaves the     *)
(* table as it was, and clearing twice leaves what clearing once leaves.   *)
C10_ClearEmptyIsNoOp ==
    /\ [][(Handled("clear") /\ OwnedRows(req', cart) = {})
             => (resp'.status = 204 /\ cart' = cart)]_vars
    /\ [](\A c \in Callers :
             clear_cart(clear_cart(cart, c.user, session_key(c)), c.user, session_key(c))
                 = clear_cart(cart, c.user, session_key(c)))

(* C11: a cart operation that reaches the service for an anonymous caller  *)
(* without a session leaves that caller with a session, and a caller that  *)
(* has a session keeps its key through every later operation.              *)
C11_SessionCreatedThenReused ==
    /\ [][(/\ req = NoRequest /\ req' # NoRequest
           /\ req'.user = None /\ cookie[req'.browser] = None
           /\ resp'.status \notin {400, 500})
             => cookie'[req'.browser] # None]_vars
    /\ [][\A b \in Browsers : cookie[b] # None => cookie'[b] = cookie[b]]_vars

(* C12: a product-create request of a caller that is not an authenticated  *)
(* staff user answers 403 and leaves the tables as they were; a create     *)
(* request that changes the Product table comes from a staff user.         *)
C12_NonStaffCreateDenied ==
    /\ [][(Handled("product_post") /\ req'.user \notin StaffUsers)
             => (resp'.status = 403 /\ catalog' = catalog)]_vars
    /\ [][(Handled("product_post") /\ catalog'["Product"] # catalog["Product"])
             => (req'.user # None /\ req'.user \in StaffUsers)]_vars

(* C12 witness: an authenticated user who is not staff was answered 403    *)
(* for a body that is valid, in a catalog where staff had created a        *)
(* product before                                                          *)
C12_Witness ==
    /\ req.op = "product_post" /\ resp.status = 403
    /\ req.user # None /\ req.user \notin StaffUsers
    /\ ProductSerializer_is_valid(catalog, req.data)
    /\ catalog["Product"].objects # {}

(* C13: a product-create request of a staff user with in_stock false and   *)
(* a positive price answers 400 and leaves the tables as they were.        *)
C13_OutOfStockPricedRejected ==
    [][( /\ Handled("product_post") /\ req'.user \in StaffUsers
         /\ "in_stock" \in DOMAIN req'.data /\ ~req'.data["in_stock"]
         /\ req'.data["price"] > 0 )
          => (resp'.status = 400 /\ catalog' = catalog)]_vars

(* C13 witness: staff sent in_stock false with price 10.00 and every field *)
(* valid, and was answered 400 for in_stock alone                          *)
C13_Witness ==
    /\ req.op = "product_post" /\ resp.status = 400 /\ resp.errors = {"in_stock"}
    /\ req.user \in StaffUsers
    /\ "in_stock" \in DOMAIN req.data /\ ~req.data["in_stock"]
    /\ req.data["price"] = 1000

(* the k-th slug of the probing order: base, base-1, base-2, ... *)
Candidate(base, k) == IF k = 0 THEN base ELSE base \o <<"-">> \o str(k)

Slugs(rows) == {r.slug : r \in rows}

(* the first slug of the probing order that no row uses *)
FirstFree(rows, base) ==
    Candidate(base, CHOOSE k \in 0..Cardinality(rows) :
                        /\ Candidate(base, k) \notin Slugs(rows)
                        /\ \A j \in 0..(k - 1) : Candidate(base, j) \in Slugs(rows))

(* C14: the slugs of a model are pairwise distinct in every state; a       *)
(* creation that gives no slug (and, for Brand and Category, a name not    *)
(* yet taken) stores one new row whose slug is the first of base, base-1,  *)
(* base-2, ... that no row of the model uses, base being the slugified     *)
(* name; "Red Shoe" created next to one product "Red Shoe" with slug       *)
(* red-shoe gets red-shoe-1.                                               *)
C14_SlugsProbedAndDistinct ==
    /\ [](\A m \in Models : \A r1, r2 \in catalog[m].objects :
              r1.slug = r2.slug => r1 = r2)
    /\ [][\A m \in Models :
             ( /\ Handled("create") /\ req'.model = m /\ req'.slug = <<>>
               /\ m # "Product" => \A r \in catalog[m].objects : r.name # req'.name )
             => \E r \in catalog'[m].objects :
                    /\ r.id = catalog[m].next_id
                    /\ r.name = req'.name
                    /\ r.slug = FirstFree(catalog[m].objects, slugify(req'.name))
                    /\ catalog'[m].objects = catalog[m].objects \cup {r}
                    /\ r \notin catalog[m].objects]_vars
    /\ [][( /\ Handled("create") /\ req'.model = "Product" /\ req'.slug = <<>>
            /\ req'.name = <<"R", "e", "d", " ", "S", "h", "o", "e">>
            /\ Cardinality(catalog["Product"].objects) = 1
            /\ \A r \in catalog["Product"].objects :
                   /\ r.name = <<"R", "e", "d", " ", "S", "h", "o", "e">>
                   /\ r.slug = <<"r", "e", "d", "-", "s", "h", "o", "e">> )
             => \E r \in catalog'["Product"].objects :
                    /\ r.id = req'.id
                    /\ r.slug = <<"r", "e", "d", "-", "s", "h", "o", "e", "-", "1">>]_vars

(* C14 witness: three products named "Red Shoe", created without a slug,   *)
(* hold red-shoe, red-shoe-1 and red-shoe-2                                *)
C14_Witness ==
    /\ req.op = "create" /\ req.model = "Product" /\ req.slug = <<>>
    /\ \A r \in catalog["Product"].objects : r.name = <<"R", "e", "d", " ", "S", "h", "o", "e">>
    /\ Slugs(catalog["Product"].objects) =
           {<<"r", "e", "d", "-", "s", "h", "o", "e">>,
            <<"r", "e", "d", "-", "s", "h", "o", "e", "-", "1">>,
            <<"r", "e", "d", "-", "s", "h", "o", "e", "-", "2">>}

(* C15: a record that has a slug keeps it in every step: no save, with or  *)
(* without a new name, changes it.                                         *)
C15_SlugKeptOnSave ==
    [][\A m \in Models : \A r \in catalog[m].objects, t \in catalog'[m].objects :
          (r.id = t.id /\ r.slug # <<>>) => t.slug = r.slug]_vars

(* C15 witness: the brand created as "Red Shoe" was renamed to             *)
(* "Red Shoe 1", saved, and still has the slug red-shoe                    *)
C15_Witness ==
    /\ req.op = "save" /\ req.model = "Brand" /\ resp.errors = {}
    /\ \E r \in catalog["Brand"].objects :
           /\ r.id = req.id
           /\ r.name = <<"R", "e", "d", " ", "S", "h", "o", "e", " ", "1">>
           /\ r.slug = <<"r", "e", "d", "-", "s", "h", "o", "e">>

(* a filter is supplied: its key was sent with a value *)
Supplied(filters, key) == key \in DOMAIN filters /\ filters[key] # <<>>

(* the product satisfies every filter of the request: the brand and the    *)
(* category it names, the stock state its in_stock token stands for (true  *)
(* for "true" and "1" in any case, false for any other token), the price   *)
(* bounds, and the search term in its name or description                  *)
Satisfies(p, filters) ==
    /\ Supplied(filters, "brand") => p.brand = int(filters["brand"])
    /\ Supplied(filters, "category") => p.category = int(filters["category"])
    /\ "in_stock" \in DOMAIN filters =>
           (p.in_stock <=> str_lower(filters["in_stock"]) \in {<<"t", "r", "u", "e">>, <<"1">>})
    /\ Supplied(filters, "min_price") => p.price >= decimal(filters["min_price"])
    /\ Supplied(filters, "max_price") => p.price <= decimal(filters["max_price"])
    /\ Supplied(filters, "search") =>
           \/ icontains(p.name, filters["search"])
           \/ icontains(p.description, filters["search"])

(* the fields the ordering parameter may name *)
AllowedOrderings == {<<"p", "r", "i", "c", "e">>, <<"r", "a", "t", "i", "n", "g">>, <<"c", "r", "e", "a", "t", "e", "d", "_", "a", "t">>, <<"n", "a", "m", "e">>}

(* C16: a product list request whose brand and category are numbers and    *)
(* whose ordering, if any, is an allowed one answers 200 with exactly the  *)
(* products of the table that satisfy every supplied filter.               *)
C16_ListIsConjunctionOfFilters ==
    ( /\ req.op = "product_list"
      /\ Supplied(req.filters, "brand") => is_int(req.filters["brand"])
      /\ Supplied(req.filters, "category") => is_int(req.filters["category"])
      /\ Supplied(req.filters, "ordering") =>
             order_field(req.filters["ordering"]) \in AllowedOrderings )
    => /\ resp.status = 200
       /\ {resp.data.results[i] : i \in 1..Len(resp.data.results)}
              = {p \in catalog["Product"].objects : Satisfies(p, req.filters)}

(* C16 witness: brand, in_stock, max_price and search were supplied        *)
(* together and the list holds some of the products, not all               *)
C16_Witness ==
    /\ req.op = "product_list" /\ resp.status = 200
    /\ \A key \in {"brand", "in_stock", "max_price", "search"} : Supplied(req.filters, key)
    /\ resp.data.results # <<>>
    /\ Len(resp.data.results) < Cardinality(catalog["Product"].objects)

(* C17: a product list request whose ordering names a field other than     *)
(* price, rating, created_at or name answers 400.                          *)
C17_UnknownOrderingRejected ==
    ( /\ req.op = "product_list"
      /\ Supplied(req.filters, "ordering")
      /\ order_field(req.filters["ordering"]) \notin AllowedOrderings )
    => resp.status = 400

(* C18: every row has exactly one of user and session_id set, and a row    *)
(* that stays in the table keeps its owner.                                *)
C18_OneOwnerNeverTransferred ==
    /\ [](\A r \in cart : ~((r.user # None) <=> (r.session_id # None)))
    /\ [][\A r \in cart, s \in cart' :
             r.id = s.id => (s.user = r.user /\ s.session_id = r.session_id)]_vars

(* C18 witness: an Update went through while the table holds a row of a    *)
(* user and a row of a session                                             *)
C18_Witness ==
    /\ req.op = "patch" /\ resp.status = 200
    /\ \E r \in cart : r.user # None /\ r.session_id = None
    /\ \E r \in cart : r.user = None /\ r.session_id # None

====
